---- MODULE Spec2Model ----
(***************************************************************************)
(* Model of the FHIR demo: the rule-based risk engine (src/ai_engine.py),  *)
(* the raw-data gateway (src/fhir_gateway.py) and the Streamlit session    *)
(* (src/app.py).                                                           *)
(*                                                                         *)
(* Conventions                                                             *)
(*  - uuid.uuid4() is a fresh identifier: <<"uuid", n>> with n drawn from  *)
(*    the counter uuid_next.  Python None is <<"None">>.                   *)
(*  - an f-string "prefix{x}" is the pair <<"prefix", x>>.                 *)
(*  - a probability p is held in hundredths (0.85 is 85).                  *)
(*  - a heart rate handed to the engine is [tag |-> "num", val |-> n] or   *)
(*    [tag |-> "str"/"none"/"list"] for a value that is not a number.      *)
(***************************************************************************)
EXTENDS Integers, Sequences, FiniteSets, TLC

VARIABLES
    uuid_next,       \* next value uuid.uuid4() hands out
    clock,           \* datetime.now(): number of engine calls started
    result,          \* outcome of the last analyze_and_create_report call
    previous,        \* outcome of the call before the last one
    issued,          \* per call that returned: its report id and order id
    watch_screen,    \* st.session_state['watch_screen']
    watch_message,   \* st.session_state['watch_message']
    has_data,        \* st.session_state['has_data']
    vitals,          \* st.session_state['vitals']
    pid,             \* st.session_state['pid']
    server_pid,      \* st.session_state['server_pid']
    ai_status,       \* st.session_state['ai_status']
    risk_id,         \* st.session_state['risk_id']
    wire,            \* the last bundle handed to requests.post, and its answer
    nreq,            \* number of bundles handed to requests.post
    raw              \* what the last create_raw_data_bundle call returned

engineVars == <<uuid_next, clock, result, previous, issued>>
sessionVars == <<watch_screen, watch_message, has_data, vitals, pid,
                 server_pid, ai_status, risk_id>>
vars == <<uuid_next, clock, result, previous, issued, watch_screen, watch_message,
          has_data, vitals, pid, server_pid, ai_status, risk_id, wire, nreq,
          raw>>

\* ------------------------------------------------------------------ bounds

\* engine calls explored in one behaviour
MaxCalls == 2
\* bundles posted in one session behaviour
MaxReq == 4

\* ------------------------------------------------------- program constants

TachyThreshold == 150
BradyThreshold == 50

None == <<"None">>
uuid4(n) == <<"uuid", n>>
\* a Python str held in a variable that may also hold None
Str(s) == <<"str", s>>
\* the empty dict {}
EmptyDict == [k \in {} |-> 0]

\* ----------------------------------------------------------------- inputs

HeartRates == {0, 30, 39, 40, 49, 50, 51, 75, 149, 150, 151, 160, 161, 180, 250}
NonNumeric == {"str", "none", "list"}
HeartRateInputs ==
    {[tag |-> "num", val |-> n] : n \in HeartRates}
        \cup {[tag |-> t] : t \in NonNumeric}
PatientIds == {"pA", "pB"}
ObsIds == {"oA", "oB"}

\* ------------------------------------------------------- src/ai_engine.py

\* lines 18-21: the values set before the ladder
Defaults ==
    [risk_level |-> "low", probability |-> 10,
     description |-> "Vital signs within normal limits",
     action_needed |-> FALSE]

\* mutant: the escalation threshold compared with >= instead of >
LadderBranches_ge(heart_rate) ==
    LET tachy == heart_rate >= TachyThreshold
        brady == (~tachy) /\ heart_rate < BradyThreshold
        other == (~tachy) /\ (~brady)
    IN  {b \in {"tachy", "brady", "else"} :
            \/ b = "tachy" /\ tachy
            \/ b = "brady" /\ brady
            \/ b = "else" /\ other}

\* mutant: "elif" written as a second "if", whose else then also runs for
\* a tachycardic heart rate
LadderBranches_if(heart_rate) ==
    LET tachy == heart_rate > TachyThreshold
        brady == heart_rate < BradyThreshold
        other == ~brady
    IN  {b \in {"tachy", "brady", "else"} :
            \/ b = "tachy" /\ tachy
            \/ b = "brady" /\ brady
            \/ b = "else" /\ other}

\* the if / elif / else ladder of lines 23-38: the branch bodies that execute
LadderBranches(heart_rate) ==
    LET tachy == heart_rate > TachyThreshold
        brady == (~tachy) /\ heart_rate < BradyThreshold
        other == (~tachy) /\ (~brady)
    IN  {b \in {"tachy", "brady", "else"} :
            \/ b = "tachy" /\ tachy
            \/ b = "brady" /\ brady
            \/ b = "else" /\ other}

\* mutant: the normal probability drifts with the time of the call
Classify_time(heart_rate, patient_id, obs_id, timestamp) ==
    LET b == LadderBranches(heart_rate)
    IN  IF "tachy" \in b
        THEN [Defaults EXCEPT
                !.risk_level = "high", !.probability = 85,
                !.description =
                    "CRITICAL: Tachycardia detected. Risk of Cardiac Arrest.",
                !.action_needed = TRUE]
        ELSE IF "brady" \in b
        THEN [Defaults EXCEPT
                !.risk_level = "moderate", !.probability = 45,
                !.description =
                    "WARNING: Bradycardia detected. Monitor required."]
        ELSE [Defaults EXCEPT
                !.risk_level = "low", !.probability = 12 + timestamp,
                !.description = "Normal Sinus Rhythm."]

\* risk_level, probability, description, action_needed after the ladder:
\* every executed branch body assigns, in source order.
\* patient_id, obs_id and timestamp are in scope and are not read.
Classify(heart_rate, patient_id, obs_id, timestamp) ==
    LET b == LadderBranches(heart_rate)
        s1 == IF "tachy" \in b
              THEN [Defaults EXCEPT
                      !.risk_level = "high", !.probability = 85,
                      !.description =
                          "CRITICAL: Tachycardia detected. Risk of Cardiac Arrest.",
                      !.action_needed = TRUE]
              ELSE Defaults
        s2 == IF "brady" \in b
              THEN [s1 EXCEPT
                      !.risk_level = "moderate", !.probability = 45,
                      !.description =
                          "WARNING: Bradycardia detected. Monitor required."]
              ELSE s1
    IN  IF "else" \in b
        THEN [s2 EXCEPT
                !.risk_level = "low", !.probability = 12,
                !.description = "Normal Sinus Rhythm."]
        ELSE s2

RiskAssessment(rid, c, patient_id, obs_id, timestamp) ==
    [resourceType |-> "RiskAssessment",
     id |-> rid,
     status |-> "final",
     subject |-> <<"Patient/", patient_id>>,
     basis |-> <<"Observation/", obs_id>>,
     occurrenceDateTime |-> timestamp,
     outcome |-> c.description,
     probabilityDecimal |-> c.probability,
     code |-> c.risk_level]

ReasonReference(rid) == <<"urn:uuid:", rid>>

EngineServiceRequest(req_id, rid, patient_id) ==
    [resourceType |-> "ServiceRequest",
     id |-> req_id,
     status |-> "active",
     intent |-> "order",
     priority |-> "stat",
     code |-> "40617009",
     subject |-> <<"Patient/", patient_id>>,
     reasonReference |-> ReasonReference(rid)]

Entry(resource, method, url) ==
    [fullUrl |-> <<"urn:uuid:", resource.id>>,
     resource |-> resource,
     request |-> [method |-> method, url |-> url]]

\* mutant: the order is given the report's identifier
OrderId_same(n) == uuid4(n)

\* the id of the escalation order: the second uuid4() of the call
OrderId(n) == uuid4(n + 1)

\* mutant: the order is put in front of the report
EngineEntries_front(c, n, patient_id, obs_id, timestamp) ==
    LET rid == uuid4(n)
        first == <<Entry(RiskAssessment(rid, c, patient_id, obs_id, timestamp),
                         "POST", "RiskAssessment")>>
    IN  IF c.action_needed
        THEN <<Entry(EngineServiceRequest(OrderId(n), rid, patient_id),
                     "POST", "ServiceRequest")>> \o first
        ELSE first

EngineEntries(c, n, patient_id, obs_id, timestamp) ==
    LET rid == uuid4(n)
        first == <<Entry(RiskAssessment(rid, c, patient_id, obs_id, timestamp),
                         "POST", "RiskAssessment")>>
    IN  IF c.action_needed
        THEN Append(first,
                    Entry(EngineServiceRequest(OrderId(n), rid, patient_id),
                          "POST", "ServiceRequest"))
        ELSE first

Bundle(entries) ==
    [resourceType |-> "Bundle", type |-> "transaction", entry |-> entries]

NoResult == [kind |-> "none"]
NoWire == [kind |-> "none"]
NoRaw == [kind |-> "none"]

\* analyze_and_create_report(heart_rate, patient_id, obs_id), numeric input
Analyze(h, patient_id, obs_id) ==
    /\ h.tag = "num"
    /\ clock < MaxCalls
    /\ LET c == Classify(h.val, patient_id, obs_id, clock)
           entries == EngineEntries(c, uuid_next, patient_id, obs_id, clock)
       IN  /\ result' = [kind |-> "ok",
                         heart_rate |-> h.val,
                         patient_id |-> patient_id,
                         obs_id |-> obs_id,
                         at |-> clock,
                         branches |-> LadderBranches(h.val),
                         bundle |-> Bundle(entries),
                         risk_level |-> c.risk_level]
           /\ uuid_next' = uuid_next + Len(entries)
           /\ issued' = Append(issued,
                               [report |-> entries[1].resource.id,
                                order |-> IF Len(entries) > 1
                                          THEN entries[2].resource.id
                                          ELSE None])
    /\ previous' = result
    /\ clock' = clock + 1
    /\ UNCHANGED <<sessionVars, wire, nreq, raw>>

\* the same call with a heart rate that is not a number: risk_id and the
\* timestamp are taken (lines 11-12), then "heart_rate > 150" raises TypeError
AnalyzeMalformed(h, patient_id, obs_id) ==
    /\ h.tag # "num"
    /\ clock < MaxCalls
    /\ result' = [kind |-> "error",
                  exception |-> "TypeError",
                  field |-> None,
                  given |-> h.tag,
                  at |-> clock]
    /\ previous' = result
    /\ uuid_next' = uuid_next + 1
    /\ clock' = clock + 1
    /\ UNCHANGED <<issued, sessionVars, wire, nreq, raw>>

Init ==
    /\ uuid_next = 1
    /\ clock = 0
    /\ result = NoResult
    /\ previous = NoResult
    /\ issued = <<>>
    /\ watch_screen = "normal"
    /\ watch_message = None
    /\ has_data = FALSE
    /\ vitals = EmptyDict
    /\ pid = None
    /\ server_pid = None
    /\ ai_status = "unknown"
    /\ risk_id = None
    /\ wire = NoWire
    /\ nreq = 0
    /\ raw = NoRaw

EngineNext ==
    \E h \in HeartRateInputs, p \in PatientIds, o \in ObsIds :
        \/ Analyze(h, p, o)
        \/ AnalyzeMalformed(h, p, o)

EngineSpec == Init /\ [][EngineNext]_vars

\* ---------------------------------------------------- src/fhir_gateway.py

\* mutant: the subject is built from the observation's own id
make_obs_self(id, code, display, value, unit, unit_code, patient_uuid, timestamp) ==
    [resourceType |-> "Observation",
     id |-> id,
     status |-> "final",
     code |-> code,
     display |-> display,
     subject |-> <<"Patient/", id>>,
     value |-> value,
     unit |-> unit,
     unit_code |-> unit_code,
     effectiveDateTime |-> timestamp]

make_obs(id, code, display, value, unit, unit_code, patient_uuid, timestamp) ==
    [resourceType |-> "Observation",
     id |-> id,
     status |-> "final",
     code |-> code,
     display |-> display,
     subject |-> <<"Patient/", patient_uuid>>,
     value |-> value,
     unit |-> unit,
     unit_code |-> unit_code,
     effectiveDateTime |-> timestamp]

bp_obs(id, sys_bp, dia_bp, lat_lon, patient_uuid, timestamp) ==
    [resourceType |-> "Observation",
     id |-> id,
     status |-> "final",
     code |-> "85354-9",
     display |-> "Blood pressure panel",
     subject |-> <<"Patient/", patient_uuid>>,
     effectiveDateTime |-> timestamp,
     component |-> <<[code |-> "8480-6", value |-> sys_bp],
                     [code |-> "8462-4", value |-> dia_bp]>>,
     extension |-> lat_lon]

\* create_raw_data_bundle: n is the value the first uuid4() returns
create_raw_data_bundle(user_id, user_name, v, lat_lon, n, timestamp) ==
    LET patient_uuid == uuid4(n)
        patient == [resourceType |-> "Patient",
                    id |-> patient_uuid,
                    identifier |-> user_id,
                    name |-> user_name,
                    gender |-> "unknown"]
        observations ==
            << make_obs(uuid4(n + 1), "8867-4", "Heart rate", v.hr,
                        "beats/minute", "/min", patient_uuid, timestamp),
               make_obs(uuid4(n + 2), "2708-6", "Oxygen saturation", v.spo2,
                        "%", "%", patient_uuid, timestamp),
               make_obs(uuid4(n + 3), "9279-1", "Respiratory rate", v.resp,
                        "breaths/minute", "/min", patient_uuid, timestamp),
               make_obs(uuid4(n + 4), "80404-7",
                        "Heart rate variability (SDNN)", v.hrv,
                        "ms", "ms", patient_uuid, timestamp),
               make_obs(uuid4(n + 5), "9383-2", "Sleep duration", v.sleep,
                        "h", "h", patient_uuid, timestamp),
               make_obs(uuid4(n + 6), "70-5", "General stress score", v.stress,
                        "score", "{score}", patient_uuid, timestamp),
               bp_obs(uuid4(n + 7), v.sys_bp, v.dia_bp, lat_lon,
                      patient_uuid, timestamp) >>
        entries ==
            <<Entry(patient, "POST", "Patient")>>
                \o [i \in DOMAIN observations |->
                       Entry(observations[i], "POST", "Observation")]
    IN  [bundle |-> Bundle(entries),
         patient_uuid |-> patient_uuid,
         obs_id |-> observations[1].id,
         uuids |-> 1 + Len(observations)]

\* the tuple create_raw_data_bundle returns: bundle, patient id, obs id
RawReturn(made) ==
    [kind |-> "returned",
     bundle |-> made.bundle,
     patient_uuid |-> made.patient_uuid,
     obs_id |-> made.obs_id]

\* arguments of create_raw_data_bundle
UserIds == {"A123", "A223456789"}
UserNames == {"TestUser", "Wang Xiao-Mei"}
GatewayVitals ==
    {[hr |-> h, spo2 |-> o, hrv |-> 50, stress |-> t, sys_bp |-> 110,
      dia_bp |-> 70, resp |-> 16, sleep |-> 7] :
        h \in {40, 75, 180}, o \in {85, 98}, t \in {20, 90}}
Positions == {"25.0,121.0", "25.033,121.565"}

\* one call of create_raw_data_bundle
CreateRaw(user_id, user_name, v, lat_lon) ==
    /\ clock < MaxCalls
    /\ LET made == create_raw_data_bundle(user_id, user_name, v, lat_lon,
                                          uuid_next, clock)
       IN  /\ raw' = RawReturn(made)
           /\ uuid_next' = uuid_next + made.uuids
    /\ clock' = clock + 1
    /\ UNCHANGED <<result, previous, issued, sessionVars, wire, nreq>>

GatewayNext ==
    \E u \in UserIds, m \in UserNames, v \in GatewayVitals, l \in Positions :
        CreateRaw(u, m, v, l)

GatewaySpec == Init /\ [][GatewayNext]_vars

\* ------------------------------------------------------------- src/app.py


\* what the FHIR server may answer to requests.post
StatusCodes == {200, 201, 500}
Bodies(posted_pid) ==
    { [json |-> FALSE],
      [json |-> TRUE, has_entry |-> FALSE],
      [json |-> TRUE, has_entry |-> TRUE,
       entry |-> <<<<"Patient", posted_pid>>, <<"Observation", <<"srv", 2>>>>>>],
      [json |-> TRUE, has_entry |-> TRUE,
       entry |-> <<None, <<"Observation", <<"srv", 2>>>>,
                   <<"Patient", <<"srv", 1>>>>>>] }
Answers(bodies) ==
    {[kind |-> "response", status_code |-> c, body |-> b] :
        c \in StatusCodes, b \in bodies}
        \cup {[kind |-> "RequestException"]}
UploadAnswers(posted_pid) == Answers(Bodies(posted_pid))
OtherAnswers == Answers({[json |-> TRUE, has_entry |-> FALSE]})

\* send_bundle returns None
NoneResponse == [kind |-> "None"]

\* send_bundle: the response, or None after an error status or an exception
send_bundle(answer) ==
    IF answer.kind = "response" /\ answer.status_code \in {200, 201}
    THEN answer
    ELSE NoneResponse

\* "res and res.status_code in [200, 201]"; a Response is truthy when ok
Delivered(res) ==
    /\ res # NoneResponse
    /\ res.status_code < 400
    /\ res.status_code \in {200, 201}

RECURSIVE FirstPatientLocation(_)
FirstPatientLocation(locations) ==
    IF locations = <<>> THEN None
    ELSE IF Head(locations) # None /\ Head(locations)[1] = "Patient"
         THEN Head(locations)[2]
         ELSE FirstPatientLocation(Tail(locations))

\* extract_id_from_response(response_json, "Patient")
extract_id_from_response(response_json) ==
    IF response_json.has_entry
    THEN FirstPatientLocation(response_json.entry)
    ELSE None

\* the upload handler's rewrite of the Patient entry to PUT Patient/{id}
PutPatient(bundle) ==
    [bundle EXCEPT !.entry =
        [i \in DOMAIN bundle.entry |->
            IF bundle.entry[i].resource.resourceType = "Patient"
            THEN [bundle.entry[i] EXCEPT !.request =
                     [method |-> "PUT",
                      url |-> <<"Patient/", bundle.entry[i].resource.id>>]]
            ELSE bundle.entry[i]]]

\* the sliders and the fixed parameters of the sensor simulator
SliderVitals ==
    {[hr |-> x[1], spo2 |-> 97, hrv |-> x[2], stress |-> 20,
      name |-> "Wang Xiao-Mei", sys_bp |-> 110, dia_bp |-> 70,
      resp |-> 16, sleep |-> 7] :
        x \in {<<75, 60>>, <<75, 25>>, <<165, 60>>}}
DoctorMessages == {"", "drink water"}

Post(kind, bundle, answer, status) ==
    [kind |-> kind,
     bundle |-> [bundle EXCEPT !.type = "transaction"],
     answer |-> IF answer.kind = "response"
                THEN [kind |-> answer.kind, status_code |-> answer.status_code]
                ELSE [kind |-> answer.kind],
     res |-> send_bundle(answer),
     status |-> status]

\* "upload" button
Upload(v, answer) ==
    /\ nreq < MaxReq
    /\ LET made == create_raw_data_bundle("A223456789", v.name, v,
                                          "25.033,121.565", uuid_next, nreq)
           res == send_bundle(answer)
       IN  /\ answer \in UploadAnswers(made.patient_uuid)
           /\ wire' = Post("upload", PutPatient(made.bundle), answer, "")
           /\ uuid_next' = uuid_next + made.uuids
           /\ IF Delivered(res) /\ res.body.json
              THEN LET confirmed == extract_id_from_response(res.body)
                       final_pid == IF confirmed # None THEN confirmed
                                    ELSE made.patient_uuid
                   IN  /\ pid' = final_pid
                       /\ server_pid' = final_pid
                       /\ has_data' = TRUE
                       /\ vitals' = v
                       /\ watch_screen' = "normal"
                       /\ UNCHANGED <<watch_message, ai_status, risk_id>>
              ELSE UNCHANGED sessionVars
           /\ raw' = RawReturn(made)
    /\ nreq' = nreq + 1
    /\ UNCHANGED <<clock, result, previous, issued>>


\* The engine app.py calls, analyze_and_create_report(v, pid) returning
\* (bundle, status, desc, risk_id), is the multi-vital variant of section 4.1
\* of the specification: emergency tier first, then preventive, then normal.
EmergencyReasons(v) ==
    {r \in {"rate", "hypoxia", "hypertensive", "hypotensive"} :
        \/ r = "rate" /\ (v.hr > 160 \/ v.hr < 40)
        \/ r = "hypoxia" /\ v.spo2 < 88
        \/ r = "hypertensive" /\ v.sys_bp > 180
        \/ r = "hypotensive" /\ v.sys_bp < 90}

PreventiveReasons(v) ==
    {r \in {"rate", "hypoxia", "fatigue", "sleep", "stress"} :
        \/ r = "rate" /\ (v.hr > 110 \/ v.hr < 50)
        \/ r = "hypoxia" /\ v.spo2 < 94
        \/ r = "fatigue" /\ v.hrv < 35
        \/ r = "sleep" /\ v.sleep < 5
        \/ r = "stress" /\ v.stress > 80}

VitalsStatus(v) ==
    IF EmergencyReasons(v) # {} THEN "emergency"
    ELSE IF PreventiveReasons(v) # {} THEN "preventive"
    ELSE "normal"

VitalsReport(v, patient_id, n) ==
    LET status == VitalsStatus(v)
        rid == uuid4(n)
        report == [resourceType |-> "RiskAssessment", id |-> rid,
                   subject |-> <<"Patient/", patient_id>>,
                   status |-> status]
        order == [resourceType |-> "ServiceRequest", id |-> uuid4(n + 1),
                  subject |-> <<"Patient/", patient_id>>,
                  reasonReference |-> <<"urn:uuid:", rid>>]
        entries == IF status = "emergency"
                   THEN <<Entry(report, "POST", "RiskAssessment"),
                          Entry(order, "POST", "ServiceRequest")>>
                   ELSE <<Entry(report, "POST", "RiskAssessment")>>
    IN  [bundle |-> Bundle(entries), status |-> status, risk_id |-> rid,
         uuids |-> Len(entries)]

\* "AI risk" button, shown once data has been uploaded
AIRisk(answer) ==
    /\ has_data
    /\ nreq < MaxReq
    /\ LET a == VitalsReport(vitals, pid, uuid_next)
           res == send_bundle(answer)
       IN  /\ wire' = Post("ai", a.bundle, answer, a.status)
           /\ uuid_next' = uuid_next + a.uuids
           /\ IF Delivered(res)
              THEN /\ ai_status' = a.status
                   /\ risk_id' = a.risk_id
                   /\ watch_screen' = IF a.status = "preventive"
                                      THEN "rest" ELSE watch_screen
              ELSE UNCHANGED <<ai_status, risk_id, watch_screen>>
    /\ nreq' = nreq + 1
    /\ UNCHANGED <<clock, result, previous, issued, raw, watch_message, has_data,
                   vitals, pid, server_pid>>

CommunicationRequest(req_id, patient_id, message_text, priority, timestamp) ==
    [resourceType |-> "CommunicationRequest",
     id |-> req_id,
     status |-> "active",
     priority |-> priority,
     subject |-> <<"Patient/", patient_id>>,
     payload |-> message_text,
     authoredOn |-> timestamp,
     category |-> "instruction"]

\* an entry of the bundles app.py builds: no fullUrl
RequestEntry(resource, method, url) ==
    [resource |-> resource, request |-> [method |-> method, url |-> url]]

\* mutant: the message is shown whatever the delivery returned
MessageAfter_always(res, doc_msg, shown) == Str(doc_msg)

\* watch_message after the "send message" handler
MessageAfter(res, doc_msg, shown) ==
    IF Delivered(res) THEN Str(doc_msg) ELSE shown

\* "send message" button: send_communication_request, then the handler
SendMessage(doc_msg, answer) ==
    /\ has_data
    /\ nreq < MaxReq
    /\ LET comm_req == CommunicationRequest(uuid4(uuid_next), pid, doc_msg,
                                            "routine", nreq)
           bundle == Bundle(<<RequestEntry(comm_req, "POST",
                                           "CommunicationRequest")>>)
       IN  /\ wire' = Post("message", bundle, answer, "")
           /\ watch_message' =
                  MessageAfter(send_bundle(answer), doc_msg, watch_message)
    /\ uuid_next' = uuid_next + 1
    /\ nreq' = nreq + 1
    /\ UNCHANGED <<clock, result, previous, issued, raw, watch_screen, has_data,
                   vitals, pid, server_pid, ai_status, risk_id>>

\* send_service_request: the CPR order
CprServiceRequest(req_id, patient_id, rid) ==
    LET safe_risk_id == IF rid # None THEN rid ELSE <<"unknown">>
    IN  [resourceType |-> "ServiceRequest",
         id |-> req_id,
         status |-> "active",
         intent |-> "order",
         priority |-> "stat",
         code |-> "40617009",
         display |-> "Start CPR",
         subject |-> <<"Patient/", patient_id>>,
         reasonReference |-> <<"RiskAssessment/", safe_risk_id>>]

\* disabled=not is_emergency
CprEnabled(status) == status = "emergency"

\* mutant: the CPR screen is raised whatever the delivery returned
CprScreen_always(res, screen) == "cpr"

\* watch_screen after the CPR handler
CprScreen(res, screen) == IF Delivered(res) THEN "cpr" ELSE screen

\* "start CPR" button
StartCpr(answer) ==
    /\ has_data
    /\ CprEnabled(ai_status)
    /\ nreq < MaxReq
    /\ LET sr == CprServiceRequest(uuid4(uuid_next), pid, risk_id)
           bundle == Bundle(<<RequestEntry(sr, "POST", "ServiceRequest")>>)
           res == send_bundle(answer)
       IN  /\ wire' = Post("cpr", bundle, answer, "")
           /\ watch_screen' = CprScreen(res, watch_screen)
           /\ watch_message' = IF Delivered(res) THEN None ELSE watch_message
    /\ uuid_next' = uuid_next + 1
    /\ nreq' = nreq + 1
    /\ UNCHANGED <<clock, result, previous, issued, raw, has_data, vitals, pid,
                   server_pid, ai_status, risk_id>>

\* the watch shows one panel: cpr, else a message, else rest, else normal
Truthy(msg) == msg # None /\ msg # Str("")

\* "dismiss CPR" button of the cpr panel
DismissCpr ==
    /\ watch_screen = "cpr"
    /\ watch_screen' = "normal"
    /\ UNCHANGED <<uuid_next, clock, result, previous, issued, raw, watch_message,
                   has_data, vitals, pid, server_pid, ai_status, risk_id,
                   wire, nreq>>

\* "dismiss" button of the message panel
DismissMessage ==
    /\ watch_screen # "cpr"
    /\ Truthy(watch_message)
    /\ watch_message' = None
    /\ UNCHANGED <<uuid_next, clock, result, previous, issued, raw, watch_screen,
                   has_data, vitals, pid, server_pid, ai_status, risk_id,
                   wire, nreq>>

\* "dismiss reminder" button of the rest panel
DismissRest ==
    /\ watch_screen = "rest"
    /\ ~Truthy(watch_message)
    /\ watch_screen' = "normal"
    /\ UNCHANGED <<uuid_next, clock, result, previous, issued, raw, watch_message,
                   has_data, vitals, pid, server_pid, ai_status, risk_id,
                   wire, nreq>>

Next ==
    \/ \E v \in SliderVitals :
          \E answer \in UploadAnswers(uuid4(uuid_next)) : Upload(v, answer)
    \/ \E answer \in OtherAnswers : AIRisk(answer)
    \/ \E m \in DoctorMessages, answer \in OtherAnswers : SendMessage(m, answer)
    \/ \E answer \in OtherAnswers : StartCpr(answer)
    \/ DismissCpr
    \/ DismissMessage
    \/ DismissRest

Spec == Init /\ [][Next]_vars

\* ------------------------------------------------ properties of the engine

Entries(r) == r.bundle.entry
OfType(r, t) == {i \in DOMAIN Entries(r) : Entries(r)[i].resource.resourceType = t}
HasOrder(r) == OfType(r, "ServiceRequest") # {}
Report(r) == Entries(r)[1].resource
Returned(r) == r.kind = "ok"

\* C1: the returned bundle holds a ServiceRequest entry if and only if the
\* heart rate is above 150; at 150 and below there is none.
C1_EscalationIffAbove150 ==
    Returned(result) => (HasOrder(result) <=> result.heart_rate > 150)

C1_Witness ==
    /\ Returned(result) /\ result.heart_rate = 151 /\ HasOrder(result)
    /\ Returned(previous) /\ previous.heart_rate = 150 /\ ~HasOrder(previous)

\* C2: in every returned bundle the report id differs from the order id and
\* the order's reasonReference is the fullUrl of the report entry of the same
\* bundle; over all calls no report id is reused, nor equal to an order id.
C2_IdentifiersAndReference ==
    /\ Returned(result) =>
         \A i \in OfType(result, "ServiceRequest") :
            /\ Entries(result)[i].resource.id # Report(result).id
            /\ \E j \in OfType(result, "RiskAssessment") :
                  Entries(result)[i].resource.reasonReference
                      = Entries(result)[j].fullUrl
    /\ \A i, j \in DOMAIN issued :
          /\ i # j => issued[i].report # issued[j].report
          /\ issued[i].report # issued[j].order

C2_Witness ==
    /\ Len(issued) = 2
    /\ issued[1].order # None
    /\ Returned(result) /\ HasOrder(result)

\* C3: a numeric heart rate never raises, and the batch is one RiskAssessment
\* first, then at most one ServiceRequest, nothing else, every entry a POST
\* whose url is the resourceType of its resource.
C3_BatchShape ==
    /\ result.kind = "error" => result.given \in NonNumeric
    /\ Returned(result) =>
         /\ Len(Entries(result)) \in {1, 2}
         /\ OfType(result, "RiskAssessment") = {1}
         /\ OfType(result, "ServiceRequest") = DOMAIN Entries(result) \ {1}
         /\ \A i \in DOMAIN Entries(result) :
               /\ Entries(result)[i].request.method = "POST"
               /\ Entries(result)[i].request.url
                      = Entries(result)[i].resource.resourceType

C3_Witness ==
    Returned(result) /\ Len(Entries(result)) = 2

\* C4: a heart rate below 40, which meets the emergency condition and the
\* preventive one, is classified as emergency with an escalation order and
\* not as the lower warning outcome.
C4_EmergencyPrecedence ==
    (Returned(result) /\ result.heart_rate < 40) =>
        /\ HasOrder(result)
        /\ Report(result).code \notin {"low", "moderate"}

\* C5: a heart rate above 160 is an emergency with risk level critical and
\* probability 0.95, and the description mentions the heart rate.
MentionsRate(text) ==
    text \in {"CRITICAL: Tachycardia detected. Risk of Cardiac Arrest.",
              "WARNING: Bradycardia detected. Monitor required."}

C5_Above160Critical ==
    (Returned(result) /\ result.heart_rate > 160) =>
        /\ HasOrder(result)
        /\ Report(result).code = "critical"
        /\ Report(result).probabilityDecimal = 95
        /\ MentionsRate(Report(result).outcome)

\* C6: the default heart rate 75 gives the normal outcome, risk level low and
\* probability exactly 0.1.
C6_DefaultsNormal ==
    (Returned(result) /\ result.heart_rate = 75) =>
        /\ ~HasOrder(result)
        /\ Report(result).code = "low"
        /\ Report(result).probabilityDecimal = 10

\* C7: exactly one branch of the ladder runs, the risk level is one of low,
\* moderate, high, critical, the probability lies in [0,1], and two calls with
\* the same heart rate give the same risk level, probability and description
\* whatever the patient id, observation id and call time.
Outcome(r) ==
    <<Report(r).code, Report(r).probabilityDecimal, Report(r).outcome,
      r.risk_level>>

C7_OneDeterministicOutcome ==
    /\ Returned(result) =>
         /\ Cardinality(result.branches) = 1
         /\ Report(result).code \in {"low", "moderate", "high", "critical"}
         /\ Report(result).code = result.risk_level
         /\ Report(result).probabilityDecimal \in 0..100
    /\ (Returned(result) /\ Returned(previous)
            /\ result.heart_rate = previous.heart_rate) =>
         Outcome(result) = Outcome(previous)

C7_Witness ==
    /\ Returned(result) /\ Returned(previous)
    /\ result.heart_rate = previous.heart_rate
    /\ result.patient_id # previous.patient_id
    /\ result.obs_id # previous.obs_id
    /\ result.at # previous.at

\* C8: a heart rate that is not a number fails with a DataError naming the
\* heart-rate field, and nothing is returned.
C8_DataErrorNamesField ==
    result.kind = "error" =>
        /\ result.exception = "DataError"
        /\ result.field \in {"hr", "heart rate", "heart_rate"}

\* ----------------------------------------------- properties of the session

Sent == nreq' # nreq
AnswerOk(w) == w.answer.kind = "response" /\ w.answer.status_code \in {200, 201}

\* C9: an answer other than 200/201, or a connection error, makes send_bundle
\* return None, and a step whose delivery failed (upload, AI report, doctor
\* message or CPR request) leaves watch_screen, watch_message, ai_status,
\* risk_id, has_data, vitals and pid as they were.
C9_FailedDeliveryChangesNothing ==
    [][Sent =>
         /\ (~AnswerOk(wire')) <=> (wire'.res = NoneResponse)
         /\ (wire'.res = NoneResponse) =>
               UNCHANGED <<watch_screen, watch_message, ai_status, risk_id,
                           has_data, vitals, pid>>]_vars

C9_Witness ==
    /\ wire.kind = "message"
    /\ wire.res = NoneResponse
    /\ wire.bundle.entry[1].resource.payload # ""
    /\ watch_message = None
    /\ ai_status = "emergency"

\* C10: watch_screen turns to "cpr" only in a step taken with ai_status
\* "emergency" whose CPR ServiceRequest was delivered, and that step clears
\* watch_message; it turns to "rest" only in a step whose delivered AI
\* analysis returned "preventive"; no CPR ServiceRequest is sent while
\* ai_status is not "emergency".
C10_ScreenTransitions ==
    [][/\ (watch_screen' = "cpr" /\ watch_screen # "cpr") =>
             /\ ai_status = "emergency"
             /\ Sent /\ wire'.kind = "cpr" /\ Delivered(wire'.res)
             /\ watch_message' = None
       /\ (watch_screen' = "rest" /\ watch_screen # "rest") =>
             /\ Sent /\ wire'.kind = "ai" /\ Delivered(wire'.res)
             /\ wire'.status = "preventive"
       /\ (Sent /\ wire'.kind = "cpr") => ai_status = "emergency"]_vars

C10_Witness ==
    /\ watch_screen = "cpr"
    /\ wire.kind = "cpr" /\ Delivered(wire.res)
    /\ ai_status = "emergency"
    /\ watch_message = None

\* C11: ai_status and risk_id describe an analysis of the stored vitals: once
\* an upload has stored new vitals, the CPR action stays disabled, and no
\* ServiceRequest citing the earlier risk_id can be sent, until an analysis of
\* those vitals has been delivered with status "emergency".
UploadStored(w) ==
    w.kind = "upload" /\ Delivered(w.res) /\ w.res.body.json

RawEntries == raw.bundle.entry
ObservationCodes ==
    <<"8867-4", "2708-6", "9279-1", "80404-7", "9383-2", "70-5", "85354-9">>

\* C12: create_raw_data_bundle returns a transaction batch of the Patient
\* followed by exactly seven Observations in a fixed order, heart rate first
\* and the blood-pressure panel last; every fullUrl is urn:uuid: plus the
\* resource id, the eight ids are pairwise distinct, every Observation's
\* subject references the Patient of the batch, and the returned patient id
\* and observation id are those of the Patient and the heart-rate Observation.
C12_RawBundleShape ==
    raw.kind = "returned" =>
        /\ raw.bundle.resourceType = "Bundle"
        /\ raw.bundle.type = "transaction"
        /\ Len(RawEntries) = 8
        /\ RawEntries[1].resource.resourceType = "Patient"
        /\ \A i \in 2..Len(RawEntries) :
              /\ RawEntries[i].resource.resourceType = "Observation"
              /\ RawEntries[i].resource.code = ObservationCodes[i - 1]
              /\ RawEntries[i].resource.subject
                     = <<"Patient/", RawEntries[1].resource.id>>
        /\ \A i \in DOMAIN RawEntries :
              RawEntries[i].fullUrl = <<"urn:uuid:", RawEntries[i].resource.id>>
        /\ \A i, j \in DOMAIN RawEntries :
              i # j => RawEntries[i].resource.id # RawEntries[j].resource.id
        /\ raw.patient_uuid = RawEntries[1].resource.id
        /\ raw.obs_id = RawEntries[2].resource.id
        /\ RawEntries[2].resource.display = "Heart rate"

C12_Witness ==
    /\ raw.kind = "returned"
    /\ clock = 2
    /\ Len(RawEntries) = 8
    /\ RawEntries[2].resource.value = 180
    /\ RawEntries[8].resource.display = "Blood pressure panel"
    /\ raw.patient_uuid # uuid4(1)

====
